---- MODULE Spec2Model ----
(***************************************************************************)
(* Model of eth-validator-watcher: the beacon client (retry policy,        *)
(* get_block, aggregate_attestations), the aggregation-bits codec, the     *)
(* missed-block detection and the sub-optimal attestation detection, driven *)
(* by the SSE slot loop of the entrypoint.                                  *)
(***************************************************************************)
EXTENDS Integers, Sequences, FiniteSets, TLC

(***************************************************************************)
(* Bounds of the model.                                                    *)
(***************************************************************************)
\* longest committee whose bitlist the codec specification encodes
MaxBits == 9
\* most attestations a block of the aggregation specification carries
MaxAtt == 2
\* size of committee 0 in the aggregation specification (committee 1 has one less)
MaxAggBits == 2
\* HTTP calls the client specification makes
MaxCalls == 3
\* validators of the chain (indices 1..NVal)
NVal == 3
\* SSE events the loop takes
MaxEvents == 2
\* slots the events are about (from the last slot of an epoch on)
NSlots == 3
\* duty cache: number of calls of a cached method in any order
MaxLruCalls == 4
\* duty cache: number of lookups of a run and the last epoch of its slots
MaxLookups == 9
MaxCacheEpoch == 3

(***************************************************************************)
(* Program constants.                                                      *)
(***************************************************************************)
NB_SLOT_PER_EPOCH == 32

None == "None"

\* Optional values: Python's None, and a value that is there
Nil(default) == [none |-> TRUE, val |-> default]
Some(v) == [none |-> FALSE, val |-> v]

Min(a, b) == IF a < b THEN a ELSE b

\* the element of a one-element set
Only(S) == CHOOSE x \in S : TRUE

RECURSIVE Pow2(_)
Pow2(n) == IF n = 0 THEN 1 ELSE 2 * Pow2(n - 1)

RECURSIVE Flatten(_)
Flatten(ss) == IF ss = <<>> THEN <<>> ELSE Head(ss) \o Flatten(Tail(ss))

Reverse(s) == [i \in 1..Len(s) |-> s[Len(s) + 1 - i]]

(***************************************************************************)
(* Aggregation-bits codec (utils: convert_hex_to_bools, switch_endianness, *)
(* remove_all_items_from_last_true, aggregate_bools, apply_mask).          *)
(* A hex string is the sequence of its hex digits (0..15) after "0x".      *)
(***************************************************************************)

\* the 4 bits of one hex digit, least significant first
NibbleBoolsLsbFirst(d) == [j \in 1..4 |-> ((d \div Pow2(j - 1)) % 2) = 1]

\* the 4 bits of one hex digit, most significant first
NibbleBools(d) == [j \in 1..4 |-> ((d \div Pow2(4 - j)) % 2) = 1]

\* hex -> booleans: the binary expansion of the number, zero-filled to 4 bits
\* per digit, most significant bit first
convert_hex_to_bools(hex) == Flatten([k \in 1..Len(hex) |-> NibbleBools(hex[k])])

\* reverse the bits by packs of 8
switch_endianness(bits) ==
    LET nchunks == (Len(bits) + 7) \div 8
        chunk(c) == SubSeq(bits, 8 * (c - 1) + 1, Min(8 * c, Len(bits)))
    IN  Flatten([c \in 1..nchunks |-> Reverse(chunk(c))])

\* index of the last TRUE of a boolean sequence, 0 when there is none
LastTrue(bools) ==
    LET idx == {i \in 1..Len(bools) : bools[i]}
    IN  IF idx = {} THEN 0 ELSE CHOOSE i \in idx : \A j \in idx : j <= i

\* the prefix that precedes the last TRUE; fails when there is no TRUE
remove_all_items_from_last_true(bools) ==
    IF LastTrue(bools) = 0
    THEN [ok |-> FALSE, val |-> <<>>]
    ELSE [ok |-> TRUE, val |-> SubSeq(bools, 1, LastTrue(bools) - 1)]

\* the three steps aggregate_attestations applies to one aggregation_bits
DecodeNoSwitch(hex) == remove_all_items_from_last_true(convert_hex_to_bools(hex))

DecodeAggregationBits(hex) ==
    remove_all_items_from_last_true(switch_endianness(convert_hex_to_bools(hex)))

(***************************************************************************)
(* SSZ bitlist encoding of n committee bits: bit i at bit (i mod 8), least  *)
(* significant first, of byte (i div 8), then one sentinel bit, then zeros. *)
(* It is the input format of the codec, produced by the beacon node.        *)
(***************************************************************************)
SszPadded(bits) ==
    LET n == Len(bits)
        nbytes == (n \div 8) + 1
    IN  [i \in 1..(8 * nbytes) |->
            IF i <= n THEN bits[i] ELSE (i = n + 1)]

RECURSIVE ByteValue(_, _, _)
ByteValue(padded, k, j) ==
    \* value of bits j..7 of byte k (0-based), weighted
    IF j > 7 THEN 0
    ELSE (IF padded[8 * k + j + 1] THEN Pow2(j) ELSE 0) + ByteValue(padded, k, j + 1)

SszEncode(bits) ==
    LET padded == SszPadded(bits)
        nbytes == Len(padded) \div 8
        byte(k) == ByteValue(padded, k, 0)
    IN  Flatten([k \in 1..nbytes |->
                    << byte(k - 1) \div 16, byte(k - 1) % 16 >>])

BoolSeqs(n) == UNION {[1..m -> BOOLEAN] : m \in 0..n}

\* pointwise OR of boolean sequences of one length; fails when lengths differ;
\* the empty list gives the empty sequence
aggregate_bools(list) ==
    IF list = <<>> THEN [ok |-> TRUE, err |-> None, val |-> <<>>]
    ELSE IF \E k \in 1..Len(list) : Len(list[k]) /= Len(list[1])
    THEN [ok |-> FALSE, err |-> "LengthMismatch", val |-> <<>>]
    ELSE [ok |-> TRUE, err |-> None,
          val |-> [i \in 1..Len(list[1]) |-> \E k \in 1..Len(list) : list[k][i]]]

\* the elements of xs at the positions where the mask is true
RECURSIVE apply_mask(_, _)
apply_mask(xs, mask) ==
    IF xs = <<>> \/ mask = <<>> THEN <<>>
    ELSE (IF Head(mask) THEN <<Head(xs)>> ELSE <<>>)
         \o apply_mask(Tail(xs), Tail(mask))

(***************************************************************************)
(* Beacon.aggregate_attestations.  A block is a record with the sequence   *)
(* of its attestations; an attestation has data.slot, data.index and the   *)
(* hex aggregation_bits (the field bits is the committee bit vector the    *)
(* beacon node encoded; the program never reads it).                       *)
(***************************************************************************)
FilteredAnySlot(block, slot) == block.attestations

FilteredAttestations(block, slot) ==
    LET Keep(a) == a.slot = slot
    IN  SelectSeq(block.attestations, Keep)

\* convert_hex_to_bools, switch_endianness and remove_all_items_from_last_true
\* on each attestation, in the order of the block
DecodeEach(filtered) ==
    [k \in 1..Len(filtered) |-> DecodeAggregationBits(filtered[k].aggregation_bits)]

\* committee_index_to_list_of_aggregation_bools, then aggregate_bools on each
AggregateDecoded(filtered, decoded) ==
    LET idxs == {filtered[k].index : k \in 1..Len(filtered)}
        group(c) ==
            LET ks == SelectSeq([k \in 1..Len(filtered) |-> k],
                                LAMBDA k : filtered[k].index = c)
            IN  [j \in 1..Len(ks) |-> decoded[ks[j]].val]
    IN  IF \E k \in 1..Len(filtered) : ~decoded[k].ok
        THEN [ok |-> FALSE, err |-> "MalformedBitfield", val |-> <<>>]
        ELSE IF \E c \in idxs : ~aggregate_bools(group(c)).ok
        THEN [ok |-> FALSE, err |-> "LengthMismatch", val |-> <<>>]
        ELSE [ok |-> TRUE, err |-> None,
              val |-> [c \in idxs |-> aggregate_bools(group(c)).val]]

aggregate_attestations(block, slot) ==
    Only({ Only({ AggregateDecoded(filtered, decoded) :
                    decoded \in {DecodeEach(filtered)} }) :
            filtered \in {FilteredAttestations(block, slot)} })

\* a well-formed attestation of committee c (of the given size) for a slot
Attestation(slot, c, bits) ==
    [slot |-> slot, index |-> c, aggregation_bits |-> SszEncode(bits), bits |-> bits]

SeqsUpTo(S, n) == UNION {[1..m -> S] : m \in 0..n}

(***************************************************************************)
(* Beacon client: the HTTP session of Beacon.__init__ and get_block.       *)
(***************************************************************************)
Validators == 1..NVal

\* statuses the beacon node answers with (500 stands for any other non-2xx)
Statuses == {200, 404, 500}

\* Retry(total=3, status_forcelist=[codes.not_found])
RetryTotal == 3
StatusForcelistAny == {404, 500}

StatusForcelist == {404}

\* the adapter with the retry policy is mounted on "http://" only: any other
\* URL goes through the session's default adapter, which retries no status
AdapterTotal(url_scheme) == IF url_scheme = "http" THEN RetryTotal ELSE 0

AdapterForcelist(url_scheme) == IF url_scheme = "http" THEN StatusForcelist ELSE {}

\* the HTTP method of each call of the client
Method(call) == IF call = "get_validators_liveness" THEN "POST" ELSE "GET"

\* a status is retried when it is in the force list and the method is one the
\* retry policy allows (its default: the idempotent methods)
is_retry(url_scheme, call, status) ==
    /\ Method(call) = "GET"
    /\ status \in AdapterForcelist(url_scheme)

\* what a call raises or returns once the session gave up on 404s (RetryError)
OnRetryError(call) == IF call = "get_block" THEN "NoBlockError" ELSE "RetryError"

\* response.raise_for_status() then the parse of the body
OnResponse(status) == IF status = 200 THEN "ok" ELSE "HTTPError"

Calls == {"get_block", "get_proposer_duties", "get_validators_liveness"}

(***************************************************************************)
(* The chain as the beacon node serves it.                                 *)
(***************************************************************************)
\* public key of validator i (a scaled-down hex string)
\* a public key: "0x", the digits that tell the validators apart, and the
\* rest of the hexadecimal string
PK(i) == <<"0", "x", i>> \o [k \in 1..9 |-> "a"]

Keys == {PK(i) : i \in Validators}

\* pubkey[:10]
Short(pubkey) == SubSeq(pubkey, 1, Min(10, Len(pubkey)))

EpochOf(slot) == slot \div NB_SLOT_PER_EPOCH

(***************************************************************************)
(* Missed block detection (missed_blocks.process_missed_blocks).           *)
(***************************************************************************)
\* next(duty.pubkey for duty in proposer_duties.data if duty.slot == slot)
ProposerPubkey(data, slot) ==
    LET ks == {k \in 1..Len(data) : data[k].slot = slot}
    IN  data[CHOOSE k \in ks : \A j \in ks : k <= j].pubkey

EmojiIgnoringOwner(missed, is_our_validator) ==
    IF missed THEN "poo" ELSE "check"

\* "cross" is the cross mark, "poo" the pile, "sparkles" and "check" the two
\* success marks
Emoji(missed, is_our_validator) ==
    LET positive_emoji == IF is_our_validator THEN "sparkles" ELSE "check"
        negative_emoji == IF is_our_validator THEN "cross" ELSE "poo"
    IN  IF missed THEN negative_emoji ELSE positive_emoji

ProposedOrMissed(missed) == IF missed THEN "missed  " ELSE "proposed"

MessageConsole(missed, is_our_validator, proposer_pubkey, slot, our_pubkeys) ==
    [emoji |-> Emoji(missed, is_our_validator),
     who |-> IF is_our_validator THEN "Our " ELSE "    ",
     pubkey |-> Short(proposer_pubkey),
     what |-> ProposedOrMissed(missed),
     epoch |-> EpochOf(slot),
     slot |-> slot,
     keys |-> Cardinality(our_pubkeys)]

MessageSlack(missed, is_our_validator, proposer_pubkey, slot) ==
    [emoji |-> Emoji(missed, is_our_validator),
     who |-> IF is_our_validator THEN "Our " ELSE "    ",
     pubkey |-> Short(proposer_pubkey),
     what |-> ProposedOrMissed(missed),
     epoch |-> EpochOf(slot),
     slot |-> slot]

ShouldSlackOnAnyMiss(slackClient, missed, is_our_validator) ==
    ~slackClient.none /\ missed

\* if slack is not None and missed and is_our_validator
ShouldSlack(slackClient, missed, is_our_validator) ==
    ~slackClient.none /\ missed /\ is_our_validator

ShouldCountAnyMiss(missed, is_our_validator) == missed

\* if is_our_validator and missed
ShouldCount(missed, is_our_validator) == is_our_validator /\ missed

\* Slack.send_message: chat_postMessage(channel=<channel of the constructor>,
\* text=<the message>)
SlackPost(slackClient, message) ==
    [channel |-> slackClient.val.channel, text |-> message]

\* missed_block_proposals_count.labels(slot=..., epoch=...).inc()
\* an increment that only creates the variant of a label
IncNewLabelOnly(counter, label) ==
    IF label \in DOMAIN counter
    THEN counter
    ELSE [l \in DOMAIN counter \cup {label} |->
             IF l = label THEN 1 ELSE counter[l]]

Inc(counter, label) ==
    IF label \in DOMAIN counter
    THEN [counter EXCEPT ![label] = @ + 1]
    ELSE [l \in DOMAIN counter \cup {label} |->
             IF l = label THEN 1 ELSE counter[l]]

(***************************************************************************)
(* Sub-optimal attestation detection                                       *)
(* (suboptimal_attestations.handle_suboptimal_attestation and              *)
(* missed_attestations.handle_suboptimal_attestation_detection).           *)
(***************************************************************************)
SeqToSet(xs) == {xs[i] : i \in 1..Len(xs)}

\* committees[previous_slot] of a defaultdict(dict): {} for an unknown slot
DutyOfSlot(committees, slot) ==
    IF slot \in DOMAIN committees THEN committees[slot] ELSE <<>>

\* our_nok_rate as the fraction num / den, None when there was no duty
\* a rate that is never computed
NokRateIsNone(our_ko_vals_index, our_duty_vals_index) ==
    Nil([num |-> 0, den |-> 1])

NokRate(our_ko_vals_index, our_duty_vals_index) ==
    IF Cardinality(our_duty_vals_index) /= 0
    THEN Some([num |-> Cardinality(our_ko_vals_index),
               den |-> Cardinality(our_duty_vals_index)])
    ELSE Nil([num |-> 0, den |-> 1])

\* the value rate_of_not_optimal_attestation_inclusion_gauge.set() is given
GaugeValue(rate) == [num |-> 100 * rate.num, den |-> rate.den]

OurKoAllDuty(our_duty_vals_index, our_ok_vals_index) == our_duty_vals_index

\* our_ko_vals_index = our_duty_vals_index - our_ok_vals_index
OurKo(our_duty_vals_index, our_ok_vals_index) ==
    our_duty_vals_index \ our_ok_vals_index

RecurrentIgnoringCumulated(our_ko_vals_index, cumulated) == our_ko_vals_index

\* our_reccurent_ko_vals_index = our_ko_vals_index & cumulated_our_ko_vals_index
Recurrent(our_ko_vals_index, cumulated) == our_ko_vals_index \cap cumulated

\* the computation of one slot, from the committees and the block; raises
\* when aggregate_attestations raises or when the block has an attestation of
\* a committee that is not in the duty map (KeyError)
SuboptimalSets(duty, actual, our_active_vals_index) ==
    LET duty_vals_index == UNION {SeqToSet(duty[c]) : c \in DOMAIN duty}
        our_duty_vals_index == duty_vals_index \cap our_active_vals_index
        known == actual.ok /\ DOMAIN actual.val \subseteq DOMAIN duty
        ok_vals_index ==
            IF known
            THEN UNION {SeqToSet(apply_mask(duty[c], actual.val[c])) :
                           c \in DOMAIN actual.val}
            ELSE {}
        our_ok_vals_index == ok_vals_index \cap our_duty_vals_index
        our_ko_vals_index == OurKo(our_duty_vals_index, our_ok_vals_index)
    IN  [raised |-> ~known,
         our_duty |-> our_duty_vals_index,
         ok |-> ok_vals_index,
         our_ok |-> our_ok_vals_index,
         our_ko |-> our_ko_vals_index,
         rate |-> NokRate(our_ko_vals_index, our_duty_vals_index)]

SuboptimalCore(block, slot, active, committees) ==
    Only({ SuboptimalSets(duty, actual, DOMAIN active) :
            duty \in {DutyOfSlot(committees, slot - 1)},
            actual \in {aggregate_attestations(block, slot - 1)} })

\* list(indices)[:5]: any 5 of them, all when there are at most 5
FirstsIndex(indices) ==
    {T \in SUBSET indices : Cardinality(T) = Min(5, Cardinality(indices))}

NewCumulatedIsKo(cumulated, our_ko_vals_index, our_ok_vals_index) ==
    our_ko_vals_index

NewCumulatedKeepsOk(cumulated, our_ko_vals_index, our_ok_vals_index) ==
    cumulated \cup our_ko_vals_index

\* new_cumulated = (cumulated | our_ko) - our_ok
NewCumulated(cumulated, our_ko_vals_index, our_ok_vals_index) ==
    (cumulated \cup our_ko_vals_index) \ our_ok_vals_index

ActiveIndexToPubkeyOfAll(active, pubkeys) == [i \in active |-> PK(i)]

\* Beacon.get_active_index_to_pubkey: the active validators whose key is watched
ActiveIndexToPubkey(active, pubkeys) ==
    [i \in {v \in active : PK(v) \in pubkeys} |-> PK(i)]

\* what a call ends with when the node answers the attempts with `answers`
RECURSIVE CallOutcomeFrom(_, _, _, _, _)
CallOutcomeFrom(url_scheme, call, answers, n, left) ==
    IF is_retry(url_scheme, call, answers[n])
    THEN IF left - 1 < 0
         THEN OnRetryError(call)
         ELSE CallOutcomeFrom(url_scheme, call, answers, n + 1, left - 1)
    ELSE OnResponse(answers[n])

CallOutcome(url_scheme, call, answers) ==
    CallOutcomeFrom(url_scheme, call, answers, 1, AdapterTotal(url_scheme))

\* every way a call can end
Outcomes(url_scheme, call) ==
    {CallOutcome(url_scheme, call, answers) :
        answers \in [1..(RetryTotal + 1) -> Statuses]}

(***************************************************************************)
(* functools.lru_cache: entries in order of use, least recently used first. *)
(***************************************************************************)
CacheHit(cache, epoch) == \E k \in 1..Len(cache) : cache[k].epoch = epoch

CacheIndex(cache, epoch) == CHOOSE k \in 1..Len(cache) : cache[k].epoch = epoch

CacheValue(cache, epoch) == cache[CacheIndex(cache, epoch)].data

\* a hit that leaves the order of the entries as it is
CacheTouchKeepsOrder(cache, epoch) == cache

\* a hit makes the entry the most recently used
CacheTouch(cache, epoch) ==
    LET k == CacheIndex(cache, epoch)
    IN  SubSeq(cache, 1, k - 1) \o SubSeq(cache, k + 1, Len(cache)) \o <<cache[k]>>

\* a miss that stores nothing
CachePutForgets(cache, epoch, data, maxsize) == cache

\* a miss stores the result and drops the least recently used entry
CachePut(cache, epoch, data, maxsize) ==
    LET c == Append(cache, [epoch |-> epoch, data |-> data])
    IN  IF Len(c) > maxsize THEN Tail(c) ELSE c

ProposerDutiesCacheSize == 2
CommitteesCacheSize == 1

(***************************************************************************)
(* handle_suboptimal_attestation_detection, given what the beacon would    *)
(* answer if asked: vresp for the active validators, cresp for the          *)
(* committees of the epoch of slot - 1 (each [ok, val]).                    *)
(***************************************************************************)
\* a fetch also when the map is empty
NeedsActiveFetchWhenEmpty(active, slot) ==
    active.none \/ active.val = <<>> \/ slot % NB_SLOT_PER_EPOCH = 0

\* our_active_val_index_to_pubkey is None or slot % NB_SLOT_PER_EPOCH == 0
NeedsActiveFetch(active, slot) ==
    active.none \/ slot % NB_SLOT_PER_EPOCH = 0

GateKeepsStateOnEmptyKeys(our_keys, active, cumulated) ==
    [active |-> active, cumulated |-> cumulated]

\* if our_pubkeys == set(): return {}, set()
GateOnEmptyKeys(our_keys, active, cumulated) ==
    [active |-> Some(<<>>), cumulated |-> {}]

NoCore ==
    [raised |-> FALSE, our_duty |-> {}, ok |-> {}, our_ok |-> {}, our_ko |-> {},
     rate |-> Nil([num |-> 0, den |-> 1])]

DetectionBase(active, cumulated, gauge, ccache) ==
    [raised |-> FALSE, ran |-> FALSE, active |-> active,
     cumulated |-> cumulated, gauge |-> gauge, ccache |-> ccache,
     asked_validators |-> FALSE, asked_committees |-> FALSE,
     core |-> NoCore, recurrent |-> {}]

\* the end of the function, once the sets of the slot are computed
DetectionEnd(base, core, active1, cumulated, gauge) ==
    IF core.raised THEN [base EXCEPT !.raised = TRUE]
    ELSE [base EXCEPT
            !.ran = TRUE,
            !.active = active1,
            !.core = core,
            !.gauge = IF core.rate.none THEN gauge ELSE GaugeValue(core.rate.val),
            !.recurrent = Recurrent(core.our_ko, cumulated),
            !.cumulated = NewCumulated(cumulated, core.our_ko, core.our_ok)]

Detection(block, slot, our_keys, active, cumulated, gauge, ccache, vresp, cresp) ==
    IF our_keys = {}
    THEN [DetectionBase(active, cumulated, gauge, ccache) EXCEPT
            !.active = GateOnEmptyKeys(our_keys, active, cumulated).active,
            !.cumulated = GateOnEmptyKeys(our_keys, active, cumulated).cumulated]
    ELSE IF NeedsActiveFetch(active, slot) /\ ~vresp.ok
    THEN [DetectionBase(active, cumulated, gauge, ccache) EXCEPT
            !.asked_validators = TRUE, !.raised = TRUE]
    ELSE IF ~block.present
    THEN [DetectionBase(active, cumulated, gauge, ccache) EXCEPT
            !.asked_validators = NeedsActiveFetch(active, slot),
            !.active = IF NeedsActiveFetch(active, slot) THEN Some(vresp.val)
                       ELSE active]
    ELSE IF ~CacheHit(ccache, EpochOf(slot - 1)) /\ ~cresp.ok
    THEN [DetectionBase(active, cumulated, gauge, ccache) EXCEPT
            !.asked_validators = NeedsActiveFetch(active, slot),
            !.asked_committees = TRUE, !.raised = TRUE]
    ELSE
    Only({ DetectionEnd(
              [DetectionBase(active, cumulated, gauge, ccache) EXCEPT
                 !.asked_validators = NeedsActiveFetch(active, slot),
                 !.asked_committees = ~CacheHit(ccache, EpochOf(slot - 1)),
                 !.ccache = IF CacheHit(ccache, EpochOf(slot - 1))
                            THEN CacheTouch(ccache, EpochOf(slot - 1))
                            ELSE CachePut(ccache, EpochOf(slot - 1), cresp.val,
                                          CommitteesCacheSize)],
              core, active1, cumulated, gauge) :
           active1 \in {IF NeedsActiveFetch(active, slot) THEN Some(vresp.val)
                        ELSE active},
           core \in {SuboptimalCore(
                        block, slot,
                        (IF NeedsActiveFetch(active, slot) THEN vresp.val
                         ELSE active.val),
                        (IF CacheHit(ccache, EpochOf(slot - 1))
                         THEN CacheValue(ccache, EpochOf(slot - 1))
                         ELSE cresp.val))} })

\* the line about sub-optimal inclusion and the line about two in a row, with
\* the validators each names
DetectionLines(res, slot, names1, names2) ==
    (IF res.ran /\ Cardinality(res.core.our_ko) > 0
     THEN << [kind |-> "suboptimal",
              indices |-> names1,
              pubkeys |-> {Short(res.active.val[i]) : i \in names1},
              more |-> Cardinality(res.core.our_ko) - Cardinality(names1),
              slot |-> slot - 1] >>
     ELSE <<>>)
    \o
    (IF res.ran /\ Cardinality(res.core.our_ko) > 0 /\ Cardinality(res.recurrent) > 0
     THEN << [kind |-> "two_in_a_row",
              indices |-> names2,
              pubkeys |-> {Short(res.active.val[i]) : i \in names2},
              more |-> Cardinality(res.recurrent) - Cardinality(names2)] >>
     ELSE <<>>)

VARIABLES
    cHex,       \* codec: the aggregation_bits being decoded
    cBits,      \* codec: the committee bits it encodes
    cOut,       \* codec: result of the pipeline, or None before it ran
    cPc,        \* codec: "in" | "done" | "off"
    aBlock,     \* aggregation: the block given to aggregate_attestations
    aOut,       \* aggregation: its result, or None before it ran
    aPc,        \* aggregation: "in" | "done" | "off"
    scheme,     \* scheme of the beacon URL given to Beacon(), "http" | "https"
    hCall,      \* client: the call being made
    hLeft,      \* client: retries the policy still allows (Retry.total)
    hHist,      \* client: statuses answered to the attempts of this call
    hBody,      \* client: proposer_index in the body of a 200 response
    hResult,    \* client: what the call returned or raised, None while running
    hCalls,     \* client: calls made so far
    hPc,        \* client: "ready" | "sending" | "done" | "off"
    dIn,        \* detection: the arguments of the call and the node's answers
    dOut,       \* detection: what the call returned, set and printed
    dPc,        \* detection: "in" | "done" | "off"
    fArg,       \* function call: the argument (key normalization, validators)
    fRes,       \* function call: what it returned or raised, None before
    fPc,        \* function call: "in" | "done" | "off"
    qSlot,      \* duty cache: slot of the last event (optional)
    qCache,     \* duty cache: lru_cache of Beacon.get_proposer_duties
    qAsked,     \* duty cache: epochs the node was asked for, in order
    qBody,      \* duty cache: the bodies the node answered, in order
    qGot,       \* duty cache: what the lookups returned, in order
    qPc,        \* duty cache: "run" | "crashed" | "off"
    qMax,       \* duty cache: maxsize of the lru_cache
    pc,         \* loop: "wait" | "missed" | "att" | "done" | "crashed" | "off"
    events,     \* loop: SSE events taken so far
    slot,       \* loop: slot of the current event
    potential_block,    \* loop: the block of the slot, or the absent block
    our_pubkeys,        \* loop: the watched keys (optional)
    our_active_val_index_to_pubkey,     \* loop: index -> pubkey (optional)
    our_ko_vals_index,  \* loop: the carried set of failing validators
    rate_gauge,         \* rate_of_not_optimal_attestation_inclusion
    missed_global,      \* missed_block_proposals_count{slot="",epoch=""}
    missed_labeled,     \* missed_block_proposals_count{slot=S,epoch=E}
    printed,    \* lines written to stdout while processing the current event
    posted,     \* messages posted to Slack (chat_postMessage calls)
    slack,      \* the Slack client (optional)
    duties_cache,       \* lru_cache of Beacon.get_proposer_duties
    committees_cache,   \* lru_cache of get_duty_slot_to_committee_index_...
    requests,           \* loop: beacon calls made while processing the event
    previous_slot_number,   \* loop: slot of the last event whose missed-block
                            \* detection completed (optional)
    new_epoch,  \* loop: the current event is the first one, or its epoch is
                \* not the epoch of the event before it
    liveness_file,      \* loop: the path of the liveness file (optional)
    liveness_writes     \* loop: number of times the liveness file was written

codecVars == <<cHex, cBits, cOut, cPc>>
aggVars == <<aBlock, aOut, aPc>>
httpVars == <<hCall, hLeft, hHist, hBody, hResult, hCalls, hPc>>

attVars == <<dIn, dOut, dPc>>
funVars == <<fArg, fRes, fPc>>
cacheVars == <<qSlot, qCache, qAsked, qBody, qGot, qPc, qMax>>

loopVars == <<pc, events, slot, potential_block, our_pubkeys,
              our_active_val_index_to_pubkey, our_ko_vals_index, rate_gauge,
              missed_global, missed_labeled, printed, posted, slack,
              duties_cache, committees_cache, requests,
              previous_slot_number, new_epoch, liveness_file, liveness_writes>>

vars == <<cHex, cBits, cOut, cPc, aBlock, aOut, aPc,
          scheme, hCall, hLeft, hHist, hBody, hResult, hCalls, hPc,
          dIn, dOut, dPc, fArg, fRes, fPc,
          qSlot, qCache, qAsked, qBody, qGot, qPc, qMax,
          pc, events, slot, potential_block, our_pubkeys,
          our_active_val_index_to_pubkey, our_ko_vals_index, rate_gauge,
          missed_global, missed_labeled, printed, posted, slack,
          duties_cache, committees_cache, requests,
          previous_slot_number, new_epoch, liveness_file, liveness_writes>>

NoBlock == [present |-> FALSE, slot |-> 0, attestations |-> <<>>]

LoopOff ==
    /\ pc = "off" /\ events = 0 /\ slot = 0 /\ potential_block = NoBlock
    /\ our_pubkeys = Nil({}) /\ our_active_val_index_to_pubkey = Nil(<<>>)
    /\ our_ko_vals_index = {} /\ rate_gauge = [num |-> 0, den |-> 1]
    /\ missed_global = 0 /\ missed_labeled = <<>> /\ printed = <<>>
    /\ posted = <<>> /\ slack = Nil([channel |-> ""])
    /\ duties_cache = <<>> /\ committees_cache = <<>> /\ requests = <<>>
    /\ previous_slot_number = Nil(0) /\ new_epoch = FALSE
    /\ liveness_file = Nil("") /\ liveness_writes = 0

AttOff == dIn = None /\ dOut = None /\ dPc = "off"
FunOff == fArg = None /\ fRes = None /\ fPc = "off"
CacheOff ==
    /\ qSlot = Nil(0) /\ qCache = <<>> /\ qAsked = <<>> /\ qBody = <<>>
    /\ qGot = <<>> /\ qPc = "off" /\ qMax = 0
CodecOff == cHex = <<>> /\ cBits = <<>> /\ cOut = None /\ cPc = "off"
AggOff == aBlock = None /\ aOut = None /\ aPc = "off"
HttpOff ==
    /\ hCall = None /\ hLeft = 0 /\ hHist = <<>>
    /\ hBody = None /\ hResult = None /\ hCalls = 0 /\ hPc = "off"

CodecInit ==
    /\ cBits \in BoolSeqs(MaxBits)
    /\ cHex = SszEncode(cBits)
    /\ cOut = None
    /\ cPc = "in"
    /\ AggOff /\ HttpOff /\ AttOff /\ FunOff /\ CacheOff /\ scheme = None /\ LoopOff

CodecDecode ==
    /\ cPc = "in"
    /\ cOut' = DecodeAggregationBits(cHex)
    /\ cPc' = "done"
    /\ UNCHANGED <<cHex, cBits>>
    /\ UNCHANGED <<scheme, aggVars, httpVars, attVars, funVars, cacheVars,
                   loopVars>>

CodecNext == CodecDecode

SpecCodec == CodecInit /\ [][CodecNext]_vars

\* C9: for every well-formed SSZ bitlist of n committee bits the pipeline
\* returns exactly those n bits, in committee order.
C9_PipelineRoundTrip ==
    cPc = "done" => (cOut.ok /\ cOut.val = cBits)

C9_Witness ==
    /\ cPc = "done"
    /\ Len(cBits) = 9
    /\ cBits[1] /\ ~cBits[2] /\ cBits[9]
    /\ cOut.ok /\ Len(cOut.val) = 9

\* the value of byte k (from 1) of a hex string
HexByte(hex, k) == 16 * hex[2 * k - 1] + hex[2 * k]

\* bit i (from 1) of a hex string, counting each byte from its least
\* significant bit
BitLsbFirst(hex, i) ==
    ((HexByte(hex, ((i - 1) \div 8) + 1) \div Pow2((i - 1) % 8)) % 2) = 1

\* the hex string 0x03
Hex03 == <<0, 3>>

\* C19 as stated: 0x03 decodes to [false x6, true, true] and the sequence
\* used for the committee is [false x6, true], a committee of size 7 with its
\* attester at position 6.
C19_Hex03IsCommitteeOfSeven ==
    (cPc = "done" /\ cHex = Hex03) =>
        /\ convert_hex_to_bools(cHex) = [i \in 1..8 |-> i >= 7]
        /\ cOut.ok
        /\ cOut.val = [i \in 1..7 |-> i = 7]

\* C19 amended: decoding emits the 8 bits of each byte most significant first;
\* the bits are then reversed within each byte, and stripping removes the last
\* true and everything after it, so that position i of the committee is bit
\* (i mod 8), least significant first, of byte (i div 8); 0x03 decodes to
\* [false x6, true, true] and gives the committee sequence [true], a committee
\* of size 1 whose validator attested.
C19_Hex03IsCommitteeOfOne ==
    cPc = "done" =>
        /\ Len(convert_hex_to_bools(cHex)) = 4 * Len(cHex)
        /\ \A k \in 1..(Len(cHex) \div 2) : \A j \in 1..8 :
              convert_hex_to_bools(cHex)[8 * (k - 1) + j]
                  <=> ((HexByte(cHex, k) \div Pow2(8 - j)) % 2) = 1
        /\ cOut.ok
        /\ \A i \in 1..Len(cOut.val) : cOut.val[i] <=> BitLsbFirst(cHex, i)
        /\ BitLsbFirst(cHex, Len(cOut.val) + 1)
        /\ \A i \in (Len(cOut.val) + 2)..(4 * Len(cHex)) : ~BitLsbFirst(cHex, i)
        /\ cHex = Hex03 =>
              /\ convert_hex_to_bools(cHex) = [i \in 1..8 |-> i >= 7]
              /\ cOut.val = <<TRUE>>

C19_Witness ==
    /\ cPc = "done"
    /\ cHex = Hex03
    /\ cOut.ok
    /\ cOut.val = <<TRUE>>

(***************************************************************************)
(* Specification of aggregate_attestations on the blocks of the bounds.    *)
(***************************************************************************)
AggTarget == 2 * NB_SLOT_PER_EPOCH - 1

AggSize(c) == MaxAggBits - c

AggAttestations ==
    {Attestation(s, c, b) : s \in {AggTarget, AggTarget - 1}, c \in {0},
                            b \in [1..AggSize(0) -> BOOLEAN]}
    \cup
    {Attestation(s, c, b) : s \in {AggTarget, AggTarget - 1}, c \in {1},
                            b \in [1..AggSize(1) -> BOOLEAN]}

AggInit ==
    /\ aBlock \in {[attestations |-> as] : as \in SeqsUpTo(AggAttestations, MaxAtt)}
    /\ aOut = None
    /\ aPc = "in"
    /\ CodecOff /\ HttpOff /\ AttOff /\ FunOff /\ CacheOff /\ scheme = None /\ LoopOff

AggAggregate ==
    /\ aPc = "in"
    /\ aOut' = aggregate_attestations(aBlock, AggTarget)
    /\ aPc' = "done"
    /\ UNCHANGED aBlock
    /\ UNCHANGED <<scheme, codecVars, httpVars, attVars, funVars, cacheVars,
                   loopVars>>

AggNext == AggAggregate

SpecAgg == AggInit /\ [][AggNext]_vars

\* the attestations of the block that are for the target slot and committee c
AggFor(c) ==
    {k \in 1..Len(aBlock.attestations) :
        /\ aBlock.attestations[k].slot = AggTarget
        /\ aBlock.attestations[k].index = c}

\* C8: the result has one key per committee with an attestation for the target
\* slot, and bit i of a committee is the OR of bit i of its attestations for
\* that slot; attestations for other slots play no part.
C8_AggregateIsOrOfTargetSlot ==
    aPc = "done" =>
        /\ aOut.ok
        /\ DOMAIN aOut.val = {c \in {0, 1} : AggFor(c) /= {}}
        /\ \A c \in DOMAIN aOut.val :
            /\ Len(aOut.val[c]) = AggSize(c)
            /\ \A i \in 1..AggSize(c) :
                aOut.val[c][i] <=> \E k \in AggFor(c) : aBlock.attestations[k].bits[i]

C8_Witness ==
    /\ aPc = "done"
    /\ Len(aBlock.attestations) = 2
    /\ aBlock.attestations[1] = Attestation(AggTarget, 0, [i \in 1..AggSize(0) |-> i = 1])
    /\ aBlock.attestations[2].slot = AggTarget - 1
    /\ aBlock.attestations[2].index = 0
    /\ aBlock.attestations[2].bits[2]
    /\ aOut.ok /\ DOMAIN aOut.val = {0} /\ ~aOut.val[0][2]

(***************************************************************************)
(* Specification of the HTTP calls of the client, one attempt per step.    *)
(***************************************************************************)
HttpInit ==
    /\ scheme \in {"http", "https"}
    /\ hCall = None /\ hLeft = 0 /\ hHist = <<>> /\ hBody = None
    /\ hResult = None /\ hCalls = 0 /\ hPc = "ready"
    /\ CodecOff /\ AggOff /\ AttOff /\ FunOff /\ CacheOff /\ LoopOff

\* self.__http.get(...) / self.__http.post(...): the call starts with the
\* retry budget of the adapter mounted for the URL
HttpStart ==
    /\ hPc \in {"ready", "done"}
    /\ hCalls < MaxCalls
    /\ \E call \in Calls : hCall' = call
    /\ hLeft' = AdapterTotal(scheme)
    /\ hHist' = <<>> /\ hBody' = None /\ hResult' = None
    /\ hCalls' = hCalls + 1
    /\ hPc' = "sending"
    /\ UNCHANGED <<scheme, codecVars, aggVars, attVars, funVars, cacheVars,
                   loopVars>>

\* one attempt: the node answers with a status; a retried status costs one
\* retry and, when none is left, ends the call with RetryError
HttpAttempt ==
    /\ hPc = "sending"
    /\ \E status \in Statuses, body \in Validators :
        /\ hHist' = Append(hHist, status)
        /\ IF is_retry(scheme, hCall, status)
           THEN /\ hLeft' = hLeft - 1
                /\ IF hLeft - 1 < 0
                   THEN hResult' = OnRetryError(hCall) /\ hPc' = "done"
                   ELSE hResult' = None /\ hPc' = "sending"
                /\ hBody' = None
           ELSE /\ hLeft' = hLeft
                /\ hResult' = OnResponse(status)
                /\ hBody' = IF status = 200 /\ hCall = "get_block" THEN body ELSE None
                /\ hPc' = "done"
    /\ UNCHANGED <<hCall, hCalls>>
    /\ UNCHANGED <<scheme, codecVars, aggVars, attVars, funVars, cacheVars,
                   loopVars>>

HttpNext == HttpStart \/ HttpAttempt

SpecHttp == HttpInit /\ [][HttpNext]_vars

hLast == hHist[Len(hHist)]

\* C4: get_block returns the Block on 200, reports NoBlock whenever the node
\* answered 404, and fails with another error on any other status.
C4_GetBlockThreeOutcomes ==
    (hPc = "done" /\ hCall = "get_block") =>
        /\ hLast = 200 => (hResult = "ok" /\ hBody \in Validators)
        /\ hLast = 404 => hResult = "NoBlockError"
        /\ hLast \notin {200, 404} => hResult = "HTTPError"

FirstSlot == 2 * NB_SLOT_PER_EPOCH - 1

Slots == FirstSlot..(FirstSlot + NSlots - 1)

\* the committees that attest at a slot: two committees at the even slots,
\* one at the odd slots (validator 1 then has no duty)
ChainDuty(s) ==
    IF s % 2 = 0
    THEN [c \in {0, 1} |->
             IF c = 0 THEN [i \in 1..(NVal - 1) |-> i] ELSE <<NVal>>]
    ELSE [c \in {0} |-> [i \in 1..(NVal - 1) |-> i + 1]]

ChainDutyVals(s) == UNION {SeqToSet(ChainDuty(s)[c]) : c \in DOMAIN ChainDuty(s)}

\* body of GET /eth/v1/beacon/states/head/committees?epoch=E, grouped by slot
\* as get_duty_slot_to_committee_index_to_validators_index returns it
CommitteesOfEpoch(epoch) ==
    [s \in {t \in (FirstSlot - 1)..(FirstSlot + NSlots - 1) : EpochOf(t) = epoch}
        |-> ChainDuty(s)]

\* the block at slot s that includes the attestations of `included` for s - 1
BlockOf(s, included) ==
    LET duty == ChainDuty(s - 1)
        att(c) ==
            IF c \in DOMAIN duty /\ SeqToSet(duty[c]) \cap included /= {}
            THEN << Attestation(s - 1, c,
                        [i \in 1..Len(duty[c]) |-> duty[c][i] \in included]) >>
            ELSE <<>>
    IN  [present |-> TRUE, slot |-> s, attestations |-> att(0) \o att(1)]

\* the blocks the node may serve for slot s: every attestation of s - 1
\* included, none, or all but the one of the first validator on duty
Inclusions(s) ==
    LET duty == ChainDutyVals(s - 1)
    IN  {duty, {}, duty \ {CHOOSE v \in duty : \A w \in duty : v <= w}}

LoopBlocks(s) == {BlockOf(s, included) : included \in Inclusions(s)}

\* the key sets the key file may hold when it is read
KeyFiles == {{}, {PK(1)}, Keys}

\* the validators that may be active when the node is asked
ActiveSets == {Validators, Validators \ {1}}

\* bodies of GET /eth/v1/validator/duties/proposer/{epoch}: one entry per
\* slot, in either order
SlotsIn(epoch) == {s \in Slots : EpochOf(s) = epoch}

RECURSIVE DutiesAscending(_, _)
DutiesAscending(f, todo) ==
    IF todo = {} THEN <<>>
    ELSE LET s == CHOOSE x \in todo : \A y \in todo : x <= y
         IN  <<[slot |-> s, pubkey |-> PK(f[s])]>> \o DutiesAscending(f, todo \ {s})

\* the validator scheduled to propose at a slot
ChainProposer(s) == (s % NVal) + 1

DutiesResponses(epoch) ==
    LET f == [s \in SlotsIn(epoch) |-> ChainProposer(s)]
    IN  {DutiesAscending(f, SlotsIn(epoch)), Reverse(DutiesAscending(f, SlotsIn(epoch)))}

ValidatorsResponses(our_keys) ==
    {[ok |-> FALSE, val |-> <<>>] : o \in Outcomes(scheme, "get_active_index_to_pubkey") \ {"ok"}}
    \cup {[ok |-> TRUE, val |-> ActiveIndexToPubkey(active, our_keys)] :
             active \in ActiveSets}

CommitteesResponses(epoch) ==
    {[ok |-> FALSE, val |-> <<>>] : o \in Outcomes(scheme, "get_committees") \ {"ok"}}
    \cup {[ok |-> TRUE, val |-> CommitteesOfEpoch(epoch)]}

(***************************************************************************)
(* The loop of entrypoint.handler.                                         *)
(***************************************************************************)
\* the end of an iteration that writes the liveness file twice
LivenessWrittenTwice(file, writes) ==
    IF file.none THEN writes ELSE writes + 2

\* if liveness_file is not None: write_liveness_file(liveness_file)
LivenessAfterEvent(file, writes) ==
    IF file.none THEN writes ELSE writes + 1

LoopStart ==
    /\ scheme \in {"http", "https"}
    /\ pc = "wait" /\ events = 0 /\ slot = 0 /\ potential_block = NoBlock
    /\ our_pubkeys = Nil({}) /\ our_active_val_index_to_pubkey = Nil(<<>>)
    /\ our_ko_vals_index = {} /\ rate_gauge = [num |-> 0, den |-> 1]
    /\ missed_global = 0 /\ missed_labeled = <<>> /\ printed = <<>>
    /\ posted = <<>>
    /\ duties_cache = <<>> /\ committees_cache = <<>> /\ requests = <<>>
    /\ previous_slot_number = Nil(0) /\ new_epoch = FALSE
    /\ liveness_writes = 0
    /\ CodecOff /\ AggOff /\ HttpOff /\ AttOff /\ FunOff /\ CacheOff

\* the watcher started without a liveness file, with or without Slack
LoopInit ==
    /\ slack \in {Nil([channel |-> ""]), Some([channel |-> "MY CHANNEL"])}
    /\ liveness_file = Nil("")
    /\ LoopStart

\* get_our_pubkeys: the keys are loaded on the first slot of each epoch
NeedsKeysReload(keys, s) == keys.none \/ s % NB_SLOT_PER_EPOCH = 0

\* An SSE event arrives: the slot is read, the block fetched
\* (get_potential_block) and the watched keys reloaded (get_our_pubkeys).
LoopEvent ==
    /\ pc = "wait"
    /\ events < MaxEvents
    /\ \E s \in Slots, outcome \in Outcomes(scheme, "get_block") :
        /\ events' = events + 1
        /\ slot' = s
        /\ printed' = <<>>
        /\ requests' = <<"get_block">>
        /\ new_epoch' = (previous_slot_number.none
                          \/ EpochOf(previous_slot_number.val) /= EpochOf(s))
        /\ IF outcome \notin {"ok", "NoBlockError"}
           THEN /\ pc' = "crashed"
                /\ UNCHANGED <<potential_block, our_pubkeys>>
           ELSE /\ pc' = "missed"
                /\ IF outcome = "ok"
                   THEN potential_block' \in LoopBlocks(s)
                   ELSE potential_block' = NoBlock
                /\ IF NeedsKeysReload(our_pubkeys, s)
                   THEN \E keys \in KeyFiles : our_pubkeys' = Some(keys)
                   ELSE UNCHANGED our_pubkeys
    /\ UNCHANGED <<our_active_val_index_to_pubkey, our_ko_vals_index, rate_gauge,
                   missed_global, missed_labeled, posted, slack, duties_cache,
                   committees_cache, previous_slot_number>>
    /\ UNCHANGED <<liveness_file, liveness_writes>>
    /\ UNCHANGED <<scheme, codecVars, aggVars, httpVars, attVars, funVars,
                   cacheVars>>

\* process_missed_blocks, once the proposer duties of the epoch are known
MissedBlocksWith(data) ==
    LET missed == ~potential_block.present
        epoch == EpochOf(slot)
        proposer_pubkey == ProposerPubkey(data, slot)
        is_our_validator == proposer_pubkey \in our_pubkeys.val
        message_console ==
            MessageConsole(missed, is_our_validator, proposer_pubkey, slot,
                           our_pubkeys.val)
        message_slack == MessageSlack(missed, is_our_validator, proposer_pubkey, slot)
    IN  /\ printed' = Append(printed, [kind |-> "block", text |-> message_console])
        /\ posted' = IF ShouldSlack(slack, missed, is_our_validator)
                     THEN Append(posted, SlackPost(slack, message_slack))
                     ELSE posted
        /\ IF ShouldCount(missed, is_our_validator)
           THEN /\ missed_global' = missed_global + 1
                /\ missed_labeled' = Inc(missed_labeled, <<slot, epoch>>)
           ELSE UNCHANGED <<missed_global, missed_labeled>>
        /\ previous_slot_number' = Some(slot)
        /\ pc' = "att"

LoopMissedBlocks ==
    /\ pc = "missed"
    /\ LET epoch == EpochOf(slot)
       IN  IF CacheHit(duties_cache, epoch)
           THEN /\ duties_cache' = CacheTouch(duties_cache, epoch)
                /\ UNCHANGED requests
                /\ MissedBlocksWith(CacheValue(duties_cache, epoch))
           ELSE /\ requests' = Append(requests, "get_proposer_duties")
                /\ \E outcome \in Outcomes(scheme, "get_proposer_duties") :
                    IF outcome = "ok"
                    THEN \E data \in DutiesResponses(epoch) :
                            /\ duties_cache' = CachePut(duties_cache, epoch, data,
                                                        ProposerDutiesCacheSize)
                            /\ MissedBlocksWith(data)
                    ELSE /\ pc' = "crashed"
                         /\ UNCHANGED <<duties_cache, printed, posted,
                                        missed_global, missed_labeled,
                                        previous_slot_number>>
    /\ UNCHANGED <<events, slot, potential_block, our_pubkeys,
                   our_active_val_index_to_pubkey, our_ko_vals_index, rate_gauge,
                   slack, committees_cache, new_epoch>>
    /\ UNCHANGED <<liveness_file, liveness_writes>>
    /\ UNCHANGED <<scheme, codecVars, aggVars, httpVars, attVars, funVars,
                   cacheVars>>

\* handle_suboptimal_attestation_detection and the end of the iteration
LoopAttestations ==
    /\ pc = "att"
    /\ \E vresp \in ValidatorsResponses(our_pubkeys.val),
          cresp \in CommitteesResponses(EpochOf(slot - 1)) :
        \E res \in {Detection(potential_block, slot, our_pubkeys.val,
                               our_active_val_index_to_pubkey, our_ko_vals_index,
                               rate_gauge, committees_cache, vresp, cresp)} :
            /\ requests' = requests
                    \o (IF res.asked_validators
                        THEN <<"get_active_index_to_pubkey">> ELSE <<>>)
                    \o (IF res.asked_committees THEN <<"get_committees">> ELSE <<>>)
            /\ committees_cache' = res.ccache
            /\ rate_gauge' = res.gauge
            /\ IF res.raised
               THEN /\ pc' = "crashed"
                    /\ UNCHANGED <<our_active_val_index_to_pubkey,
                                   our_ko_vals_index, printed>>
               ELSE /\ pc' = "done"
                    /\ our_active_val_index_to_pubkey' = res.active
                    /\ our_ko_vals_index' = res.cumulated
                    /\ \E names1 \in FirstsIndex(res.core.our_ko),
                          names2 \in FirstsIndex(res.recurrent) :
                        printed' = printed \o DetectionLines(res, slot, names1, names2)
    /\ UNCHANGED <<events, slot, potential_block, our_pubkeys, missed_global,
                   missed_labeled, posted, slack, duties_cache,
                   previous_slot_number, new_epoch>>
    /\ UNCHANGED <<liveness_file, liveness_writes>>
    /\ UNCHANGED <<scheme, codecVars, aggVars, httpVars, attVars, funVars,
                   cacheVars>>

\* the iteration ends (the liveness file is written) and the loop waits for
\* the next event; slot, block and the lines of the iteration are dropped
LoopEnd ==
    /\ pc = "done"
    /\ pc' = "wait"
    /\ slot' = 0 /\ potential_block' = NoBlock /\ printed' = <<>>
    /\ requests' = <<>> /\ new_epoch' = FALSE
    /\ liveness_writes' = LivenessAfterEvent(liveness_file, liveness_writes)
    /\ UNCHANGED <<events, our_pubkeys, our_active_val_index_to_pubkey,
                   our_ko_vals_index, rate_gauge, missed_global, missed_labeled,
                   posted, slack, duties_cache, committees_cache,
                   previous_slot_number>>
    /\ UNCHANGED liveness_file
    /\ UNCHANGED <<scheme, codecVars, aggVars, httpVars, attVars, funVars,
                   cacheVars>>

Next == LoopEvent \/ LoopMissedBlocks \/ LoopAttestations \/ LoopEnd

Spec == LoopInit /\ [][Next]_vars

RECURSIVE SumOver(_, _)
SumOver(counter, labels) ==
    IF labels = {} THEN 0
    ELSE LET l == CHOOSE x \in labels : TRUE
         IN  counter[l] + SumOver(counter, labels \ {l})

\* the sum of the labeled variants of a counter
SumLabeled(counter) == SumOver(counter, DOMAIN counter)

\* C23: at the end of every iteration the variant of
\* missed_block_proposals_count with empty labels equals the sum of its
\* variants labeled with a slot and its epoch, every labeled variant is one of
\* a slot of the chain, and no step makes a variant smaller or removes it.
C23_GlobalIsSumOfLabeled ==
    [][ /\ pc' \in {"done", "wait"} => missed_global' = SumLabeled(missed_labeled')
        /\ \A l \in DOMAIN missed_labeled' : l[1] \in Slots /\ l[2] = EpochOf(l[1])
        /\ missed_global' >= missed_global
        /\ \A l \in DOMAIN missed_labeled :
              /\ l \in DOMAIN missed_labeled'
              /\ missed_labeled'[l] >= missed_labeled[l] ]_vars

\* two iterations ended, each with a missed proposal of a watched validator, at
\* two slots
C23_Witness ==
    /\ pc = "wait"
    /\ missed_global = 2
    /\ Cardinality(DOMAIN missed_labeled) = 2

\* the watcher started with or without a liveness file, without Slack
LivenessInit ==
    /\ slack = Nil([channel |-> ""])
    /\ liveness_file \in {Nil(""), Some("liveness")}
    /\ LoopStart

SpecLiveness == LivenessInit /\ [][Next]_vars

\* the steps of the handler, in the order of an iteration
HandlerSteps ==
    {<<"wait", "missed">>, <<"missed", "att">>, <<"att", "done">>, <<"done", "wait">>}

\* the number of events whose iteration reached its end
Completed == IF pc = "wait" THEN events ELSE events - 1

SlotMissed == ~potential_block.present
SlotIsOurs == PK(ChainProposer(slot)) \in our_pubkeys.val

\* missed-block detection completes for the slot in this step
MissedBlocksStep == pc = "missed" /\ pc' = "att"

\* value of the labeled variant of missed_block_proposals_count
Labeled(counter, label) == IF label \in DOMAIN counter THEN counter[label] ELSE 0

\* C1: processing a slot that is missed and whose proposer is watched adds
\* exactly 1 to missed_block_proposals_count{slot="",epoch=""} and to
\* missed_block_proposals_count{slot=S,epoch=S div 32}; in the three other
\* quadrants, and in every other step, no variant of the counter changes.
C1_MissedOursCounted ==
    [][ IF MissedBlocksStep /\ SlotMissed /\ SlotIsOurs
        THEN /\ missed_global' = missed_global + 1
             /\ DOMAIN missed_labeled' = DOMAIN missed_labeled \cup {<<slot, slot \div 32>>}
             /\ \A l \in DOMAIN missed_labeled' :
                    Labeled(missed_labeled', l) =
                        Labeled(missed_labeled, l)
                        + (IF l = <<slot, slot \div 32>> THEN 1 ELSE 0)
        ELSE UNCHANGED <<missed_global, missed_labeled>> ]_vars

C1_Witness ==
    /\ pc = "att" /\ SlotMissed /\ SlotIsOurs
    /\ missed_global = 1
    /\ Labeled(missed_labeled, <<slot, slot \div 32>>) = 1

\* C2: a Slack message is sent only by missed-block detection and only for a
\* slot both missed and assigned to a watched key; with a client configured
\* exactly one message is sent for such a slot, to the channel of the
\* constructor and with the text of the alert; with no client nothing is sent
\* and the line is still printed.
C2_SlackOnlyForMissedOurs ==
    [][ /\ posted' /= posted =>
              MissedBlocksStep /\ SlotMissed /\ SlotIsOurs /\ ~slack.none
        /\ (MissedBlocksStep /\ SlotMissed /\ SlotIsOurs /\ ~slack.none) =>
              posted' = Append(posted,
                          [channel |-> "MY CHANNEL",
                           text |-> [emoji |-> "cross", who |-> "Our ",
                                     pubkey |-> SubSeq(PK(ChainProposer(slot)), 1, 10),
                                     what |-> "missed  ",
                                     epoch |-> slot \div 32, slot |-> slot]])
        /\ slack.none => posted' = <<>>
        /\ MissedBlocksStep =>
              /\ Len(printed') = Len(printed) + 1
              /\ printed'[Len(printed')].kind = "block" ]_vars

C2_Witness ==
    /\ pc = "att" /\ SlotMissed /\ SlotIsOurs /\ ~slack.none
    /\ Len(posted) = 1 /\ posted[1].channel = "MY CHANNEL"
    /\ posted[1].text.slot = slot
    /\ Len(printed) = 1

\* the lines of missed-block detection among those of the event
BlockLines == {k \in 1..Len(printed) : printed[k].kind = "block"}

\* C3: missed-block detection prints exactly one line per processed slot and
\* its emoji depends on (missed, is_ours) only: cross mark for missed and ours,
\* pile for missed and not ours, sparkles for proposed and ours, check mark
\* for proposed and not ours.
C3_OneLineEmojiByQuadrant ==
    pc \in {"att", "done"} =>
        /\ BlockLines = {1}
        /\ printed[1].text.emoji =
              (IF SlotMissed
               THEN (IF SlotIsOurs THEN "cross" ELSE "poo")
               ELSE (IF SlotIsOurs THEN "sparkles" ELSE "check"))

C3_Witness ==
    /\ pc = "att" /\ ~SlotMissed /\ ~SlotIsOurs
    /\ our_pubkeys.val /= {}
    /\ Len(printed) = 1 /\ printed[1].text.emoji = "check"

\* sub-optimal attestation detection returns (or raises) in this step, for an
\* event whose block is absent
AbsentBlockDetectionStep == pc = "att" /\ pc' /= "att" /\ SlotMissed

\* missed-block detection ran for the slot and reported it missed
MissReported ==
    /\ BlockLines = {1} /\ Len(printed) = 1
    /\ printed[1].text.what = "missed  " /\ printed[1].text.slot = slot

\* C6 as stated: for an event whose block is absent, missed-block detection
\* still runs, and sub-optimal attestation detection fetches no committees,
\* does not set the gauge, prints no line and leaves the carried set unchanged.
C6_AbsentBlockLeavesCarriedSet ==
    [][ AbsentBlockDetectionStep =>
            /\ MissReported
            /\ "get_committees" \notin SeqToSet(requests')
            /\ committees_cache' = committees_cache
            /\ rate_gauge' = rate_gauge
            /\ printed' = printed
            /\ our_ko_vals_index' = our_ko_vals_index ]_vars

\* C6 amended: the same, but the carried set is unchanged only when some key
\* is watched; with no watched key it is reset to the empty set.
C6_AbsentBlockGatesDetection ==
    [][ AbsentBlockDetectionStep =>
            /\ MissReported
            /\ "get_committees" \notin SeqToSet(requests')
            /\ committees_cache' = committees_cache
            /\ rate_gauge' = rate_gauge
            /\ printed' = printed
            /\ our_ko_vals_index' =
                  IF our_pubkeys.val = {} THEN {} ELSE our_ko_vals_index ]_vars

C6_Witness ==
    /\ pc = "done" /\ SlotMissed /\ MissReported
    /\ our_pubkeys.val /= {}
    /\ our_ko_vals_index /= {}
    /\ rate_gauge /= [num |-> 0, den |-> 1]
    /\ "get_committees" \notin SeqToSet(requests)

\* sub-optimal attestation detection returns for an event with watched keys
WatchedDetectionStep == pc = "att" /\ pc' = "done" /\ our_pubkeys.val /= {}

\* C11: the active-index map A of the watched keys is refreshed on the first
\* event and on every event whose epoch is not the epoch of the event before
\* it, whatever its slot in the epoch; on every other event A is left as it is
\* and the node is not asked.
C11_RefreshOnNewEpochOnly ==
    [][ WatchedDetectionStep =>
          /\ new_epoch <=> "get_active_index_to_pubkey" \in SeqToSet(requests')
          /\ ~new_epoch =>
                our_active_val_index_to_pubkey' = our_active_val_index_to_pubkey
      ]_vars

\* an exception left the loop of the handler: the process ends
HandlerTerminated == pc = "crashed"

\* C12: a beacon call that fails with a transport error while a slot is
\* processed does not end the loop.
C12_TransportErrorDoesNotEndLoop == ~HandlerTerminated

\* C15: when the same slot is delivered twice in a row and its miss was
\* counted at the first delivery, the second delivery adds nothing to either
\* variant of missed_block_proposals_count and sends no Slack message.
C15_DuplicateSlotCountedOnce ==
    [][ ( /\ MissedBlocksStep
          /\ ~previous_slot_number.none
          /\ previous_slot_number.val = slot
          /\ Labeled(missed_labeled, <<slot, slot \div 32>>) >= 1 ) =>
            /\ UNCHANGED <<missed_global, missed_labeled>>
            /\ posted' = posted ]_vars

\* sub-optimal attestation detection runs to its end in this step: keys are
\* watched and the block is present
ConsecutiveMissStep == WatchedDetectionStep /\ potential_block.present

\* the validators with a bit set in an attestation of the block for slot - 1
BlockOkVals ==
    LET atts == potential_block.attestations
        duty == ChainDuty(slot - 1)
    IN  {v \in Validators :
            \E k \in 1..Len(atts) :
                /\ atts[k].slot = slot - 1
                /\ \E i \in 1..Len(atts[k].bits) :
                    atts[k].bits[i] /\ duty[atts[k].index][i] = v}

\* the watched validators found failing by the step: on duty at slot - 1,
\* active, and with no bit set in the block
FailingVals(active) ==
    (ChainDutyVals(slot - 1) \cap DOMAIN active.val) \ BlockOkVals

\* the watched validators whose attestation the step finds included
IncludedVals(active) ==
    ChainDutyVals(slot - 1) \cap DOMAIN active.val \cap BlockOkVals

\* C17 as stated: after the step the carried set is exactly the set D of the
\* watched validators found failing in that run, and it changes in no other
\* step.
C17_CarriedSetIsFailingSet ==
    [][ /\ ConsecutiveMissStep =>
              our_ko_vals_index' = FailingVals(our_active_val_index_to_pubkey')
        /\ our_ko_vals_index' /= our_ko_vals_index => pc = "att" /\ pc' = "done"
      ]_vars

\* C17 amended: after the step the carried set is (D_prev \cup D) minus the
\* watched validators whose attestation was included; a carried validator leaves the
\* set only when its attestation is included, and the set changes in no other
\* step (the same step empties it when no key is watched).
C17_CarriedSetAccumulates ==
    [][ /\ ConsecutiveMissStep =>
              our_ko_vals_index' =
                  (our_ko_vals_index
                   \cup FailingVals(our_active_val_index_to_pubkey'))
                  \ IncludedVals(our_active_val_index_to_pubkey')
        /\ our_ko_vals_index' /= our_ko_vals_index => pc = "att" /\ pc' = "done"
        /\ (pc = "att" /\ pc' = "done" /\ ~ConsecutiveMissStep) =>
              our_ko_vals_index' =
                  IF our_pubkeys.val = {} THEN {} ELSE our_ko_vals_index
      ]_vars

C17_Witness ==
    /\ pc = "done" /\ potential_block.present /\ our_pubkeys.val = Keys
    /\ 1 \notin ChainDutyVals(slot - 1)
    /\ 1 \in DOMAIN our_active_val_index_to_pubkey.val
    /\ FailingVals(our_active_val_index_to_pubkey) = {}
    /\ our_ko_vals_index = {1}

\* the step of a slot with a block and a watched key brings the carried set
\* to contain our_ko, to contain nothing of our_ok, and to keep as they were
\* the validators without duty at slot - 1
CarriedAfterStep ==
    ConsecutiveMissStep =>
        /\ FailingVals(our_active_val_index_to_pubkey') \subseteq our_ko_vals_index'
        /\ our_ko_vals_index' \cap IncludedVals(our_active_val_index_to_pubkey') = {}
        /\ \A v \in Validators \ ChainDutyVals(slot - 1) :
              v \in our_ko_vals_index' <=> v \in our_ko_vals_index

\* the step finds the attestation of v included
IncludedInStep(v) ==
    ConsecutiveMissStep /\ v \in IncludedVals(our_active_val_index_to_pubkey')

\* the step of a slot at which no key is watched
EmptyWatchedStep == pc = "att" /\ pc' = "done" /\ our_pubkeys.val = {}

\* C24 as stated: the step of a slot with a block and a watched key gives a
\* carried set with all of our_ko, nothing of our_ok, and the validators
\* without duty at slot - 1 as before; a validator leaves the carried set only
\* in a step that finds its attestation included.
C24_CarriedUntilIncluded ==
    [][ /\ CarriedAfterStep
        /\ \A v \in our_ko_vals_index \ our_ko_vals_index' : IncludedInStep(v)
      ]_vars

\* C24 amended: as stated, but a validator also leaves the carried set in the
\* step of a slot at which no key is watched, which empties the set.
C24_CarriedUntilIncludedOrNoKey ==
    [][ /\ CarriedAfterStep
        /\ \A v \in our_ko_vals_index \ our_ko_vals_index' :
              IncludedInStep(v) \/ EmptyWatchedStep
      ]_vars

\* after the step of the second event: a validator is found failing, another
\* one included, and a carried validator without duty at slot - 1 is kept
C24_Witness ==
    /\ pc = "done" /\ events = 2 /\ potential_block.present
    /\ our_pubkeys.val /= {}
    /\ FailingVals(our_active_val_index_to_pubkey) /= {}
    /\ IncludedVals(our_active_val_index_to_pubkey) /= {}
    /\ \E v \in our_ko_vals_index : v \notin ChainDutyVals(slot - 1)

\* C25: the step of a slot at which no key is watched makes no request to the
\* node, leaves the gauge as it is, and stores an empty active map and an empty
\* carried set; the step of a slot with a watched key that finds an empty
\* active map, at a slot that is not the first of an epoch, does not fetch the
\* map and keeps it empty.
C25_EmptyWatchedSetResets ==
    [][ /\ EmptyWatchedStep =>
              /\ requests' = requests
              /\ rate_gauge' = rate_gauge
              /\ committees_cache' = committees_cache
              /\ our_active_val_index_to_pubkey' = Some(<<>>)
              /\ our_ko_vals_index' = {}
        /\ ( /\ pc = "att" /\ pc' /= pc /\ our_pubkeys.val /= {}
             /\ our_active_val_index_to_pubkey = Some(<<>>)
             /\ slot % NB_SLOT_PER_EPOCH /= 0 ) =>
              /\ "get_active_index_to_pubkey" \notin SeqToSet(requests')
              /\ our_active_val_index_to_pubkey' = Some(<<>>)
      ]_vars

\* the first event set the gauge and left validators carried; at the second
\* one no key is watched and the step emptied the map and the carried set
C25_Witness ==
    /\ pc = "done" /\ events = 2
    /\ our_pubkeys.val = {}
    /\ rate_gauge.num > 0
    /\ our_active_val_index_to_pubkey = Some(<<>>)
    /\ our_ko_vals_index = {}
    /\ "get_active_index_to_pubkey" \notin SeqToSet(requests)

(***************************************************************************)
(* Specification of one call of handle_suboptimal_attestation_detection,   *)
(* on every block the chain of the bounds can hold.                        *)
(***************************************************************************)
AttBlocks(s) == {NoBlock} \cup {BlockOf(s, included) : included \in SUBSET Validators}

AttGauges == {[num |-> 0, den |-> 1], [num |-> 100, den |-> 2]}

AttActives(keys) ==
    {Nil(<<>>)} \cup {Some(ActiveIndexToPubkey(active, keys)) : active \in ActiveSets}

AttInit ==
    /\ \E s \in Slots, keys \in KeyFiles :
        dIn \in [block : AttBlocks(s), slot : {s}, our_pubkeys : {keys},
                 active : AttActives(keys), cumulated : SUBSET Validators,
                 gauge : AttGauges]
    /\ dOut = None
    /\ dPc = "in"
    /\ FunOff /\ CacheOff
    /\ CodecOff /\ AggOff /\ HttpOff /\ scheme = None /\ LoopOff

\* the call, the node answering both requests when they are made
AttDetect ==
    /\ dPc = "in"
    /\ \E active \in ActiveSets :
        \E res \in {Detection(dIn.block, dIn.slot, dIn.our_pubkeys, dIn.active,
                              dIn.cumulated, dIn.gauge, <<>>,
                              [ok |-> TRUE,
                               val |-> ActiveIndexToPubkey(active, dIn.our_pubkeys)],
                              [ok |-> TRUE,
                               val |-> CommitteesOfEpoch(EpochOf(dIn.slot - 1))])} :
            \E names1 \in FirstsIndex(res.core.our_ko),
               names2 \in FirstsIndex(res.recurrent) :
                dOut' = [res |-> res,
                         lines |-> DetectionLines(res, dIn.slot, names1, names2)]
    /\ dPc' = "done"
    /\ UNCHANGED dIn
    /\ UNCHANGED <<scheme, codecVars, aggVars, httpVars, funVars, cacheVars,
                   loopVars>>

AttNext == AttDetect

SpecAtt == AttInit /\ [][AttNext]_vars

\* the validators scheduled to attest at the slot before the one of the call
AttDuty == ChainDutyVals(dIn.slot - 1)

\* the validators whose bit is set in an attestation of the block for that slot
AttOk ==
    LET atts == dIn.block.attestations
        duty == ChainDuty(dIn.slot - 1)
    IN  {v \in Validators :
            \E k \in 1..Len(atts) :
                /\ atts[k].slot = dIn.slot - 1
                /\ \E i \in 1..Len(atts[k].bits) :
                    atts[k].bits[i] /\ duty[atts[k].index][i] = v}

\* the two-in-a-row lines of the call
AttTwoInARow == {k \in 1..Len(dOut.lines) : dOut.lines[k].kind = "two_in_a_row"}

\* C7: with a block present, our_ok = ok \cap our_duty and
\* our_ko = our_duty \ our_ok partition our_duty = duty \cap keys(A); the gauge
\* is set to 100 * |our_ko| / |our_duty|, within [0, 100], when our_duty is
\* not empty and keeps its value otherwise.
C7_RateOfOurDuty ==
    (dPc = "done" /\ dIn.block.present /\ dIn.our_pubkeys /= {}) =>
        LET our_duty == AttDuty \cap DOMAIN dOut.res.active.val
            our_ok == AttOk \cap our_duty
            our_ko == our_duty \ our_ok
        IN  /\ dOut.res.ran
            /\ dOut.res.core.our_duty = our_duty
            /\ dOut.res.core.our_ok = our_ok
            /\ dOut.res.core.our_ko = our_ko
            /\ dOut.res.core.our_ok \cup dOut.res.core.our_ko = our_duty
            /\ dOut.res.core.our_ok \cap dOut.res.core.our_ko = {}
            /\ IF our_duty /= {}
               THEN /\ dOut.res.gauge = [num |-> 100 * Cardinality(our_ko),
                                         den |-> Cardinality(our_duty)]
                    /\ 0 <= dOut.res.gauge.num
                    /\ dOut.res.gauge.num <= 100 * dOut.res.gauge.den
               ELSE dOut.res.gauge = dIn.gauge

C7_Witness ==
    /\ dPc = "done" /\ dIn.block.present
    /\ Cardinality(AttDuty \cap DOMAIN dOut.res.active.val) = 2
    /\ Cardinality(AttOk \cap AttDuty \cap DOMAIN dOut.res.active.val) = 1
    /\ dIn.gauge = [num |-> 0, den |-> 1]
    /\ dOut.res.gauge = [num |-> 100, den |-> 2]

\* C10: when the step runs with carried set D_prev and finds the failing set
\* D, the two-in-a-row line is printed iff D \cap D_prev is not empty, and it
\* names validators of D \cap D_prev only.
C10_TwoInARowIsIntersection ==
    (dPc = "done" /\ dOut.res.ran) =>
        LET D == (AttDuty \cap DOMAIN dOut.res.active.val) \ AttOk
            D_prev == dIn.cumulated
        IN  /\ (AttTwoInARow /= {}) <=> (D \cap D_prev /= {})
            /\ Cardinality(AttTwoInARow) <= 1
            /\ \A k \in AttTwoInARow :
                /\ dOut.lines[k].indices /= {}
                /\ dOut.lines[k].indices \subseteq D \cap D_prev

C10_Witness ==
    /\ dPc = "done" /\ dOut.res.ran
    /\ dIn.cumulated = {1, 2}
    /\ (AttDuty \cap DOMAIN dOut.res.active.val) \ AttOk = {1, 3}
    /\ \E k \in AttTwoInARow : dOut.lines[k].indices = {1}

\* C26: the assertions of the function hold at every call: with a block and a
\* watched key the active map is not None; when our_ko is not empty the rate is
\* not None; every index of our_ko and of the recurrent set is a key of the
\* active map, so each line names exactly the pubkeys of its indices; no call
\* on a block of the chain, the node answering, raises.
C26_AssertionsHold ==
    dPc = "done" =>
        /\ ~dOut.res.raised
        /\ (dIn.block.present /\ dIn.our_pubkeys /= {}) =>
              dOut.res.ran /\ ~dOut.res.active.none
        /\ dOut.res.core.our_ko /= {} => ~dOut.res.core.rate.none
        /\ dOut.res.core.our_ko \subseteq DOMAIN dOut.res.active.val
        /\ dOut.res.recurrent \subseteq DOMAIN dOut.res.active.val
        /\ \A k \in 1..Len(dOut.lines) :
              /\ dOut.lines[k].indices \subseteq DOMAIN dOut.res.active.val
              /\ Cardinality(dOut.lines[k].pubkeys) = Cardinality(dOut.lines[k].indices)

\* a call with the active map None and a carried validator that is not active:
\* the map is fetched, and both lines are printed
C26_Witness ==
    /\ dPc = "done" /\ dOut.res.ran
    /\ dIn.active.none
    /\ dIn.cumulated \ DOMAIN dOut.res.active.val /= {}
    /\ dOut.res.core.our_ko /= {}
    /\ dOut.res.recurrent /= {}
    /\ Len(dOut.lines) = 2

(***************************************************************************)
(* Key normalization (utils.eth2_address_0x_prefixed).  A key is the       *)
(* sequence of its characters.                                              *)
(***************************************************************************)
ETH2_ADDRESS_LEN == 96

HexDigits ==
    <<"0", "1", "2", "3", "4", "5", "6", "7", "8", "9", "a", "b", "c", "d", "e", "f">>

HexChars == SeqToSet(HexDigits)

Has0x(address) == Len(address) >= 2 /\ address[1] = "0" /\ address[2] = "x"

\* the hex body: the key without its optional 0x
HexBody(address) ==
    IF Has0x(address) THEN SubSeq(address, 3, Len(address)) ELSE address

eth2_address_always_prefixing(address) ==
    IF /\ Len(HexBody(address)) = ETH2_ADDRESS_LEN
       /\ \A i \in 1..Len(HexBody(address)) : HexBody(address)[i] \in HexChars
    THEN [ok |-> TRUE, val |-> <<"0", "x">> \o address]
    ELSE [ok |-> FALSE, val |-> "ValueError"]

\* raises ValueError unless the body is ETH2_ADDRESS_LEN hex digits; returns
\* the key, with 0x put in front when it has none
eth2_address_0x_prefixed(address) ==
    IF /\ Len(HexBody(address)) = ETH2_ADDRESS_LEN
       /\ \A i \in 1..Len(HexBody(address)) : HexBody(address)[i] \in HexChars
    THEN [ok |-> TRUE,
          val |-> IF Has0x(address) THEN address ELSE <<"0", "x">> \o address]
    ELSE [ok |-> FALSE, val |-> "ValueError"]

\* a key of n body characters, hex digits except for `bad` at position p
\* (p = 0: all hex digits)
MakeKey(prefixed, n, p, bad) ==
    (IF prefixed THEN <<"0", "x">> ELSE <<>>)
    \o [i \in 1..n |-> IF i = p THEN bad ELSE HexDigits[(i % 16) + 1]]

KeyLens == {3, ETH2_ADDRESS_LEN - 1, ETH2_ADDRESS_LEN, ETH2_ADDRESS_LEN + 1}

KeyInputs ==
    {MakeKey(prefixed, n, 0, "g") : prefixed \in BOOLEAN, n \in KeyLens}
    \cup UNION {{MakeKey(prefixed, n, p, bad) :
                    prefixed \in BOOLEAN, p \in 1..n, bad \in {"g", "x"}} :
                n \in KeyLens}

KeysInit ==
    /\ fArg \in KeyInputs
    /\ fRes = None
    /\ fPc = "in"
    /\ CodecOff /\ AggOff /\ HttpOff /\ AttOff /\ CacheOff
    /\ scheme = None /\ LoopOff

KeysNormalize ==
    /\ fPc = "in"
    /\ fRes' = eth2_address_0x_prefixed(fArg)
    /\ fPc' = "done"
    /\ UNCHANGED fArg
    /\ UNCHANGED <<scheme, codecVars, aggVars, httpVars, attVars, cacheVars,
                   loopVars>>

KeysNext == KeysNormalize

SpecKeys == KeysInit /\ [][KeysNext]_vars

\* the characters of the key after its optional 0x
KeyTail == IF Has0x(fArg) THEN [i \in 1..(Len(fArg) - 2) |-> fArg[i + 2]] ELSE fArg

KeyIsValid ==
    /\ Len(KeyTail) = 96
    /\ \A i \in 1..Len(KeyTail) :
          KeyTail[i] \in {"0", "1", "2", "3", "4", "5", "6", "7", "8", "9",
                          "a", "b", "c", "d", "e", "f"}

ValidatorStatuses ==
    {"pending_queued", "active_ongoing", "active_exiting", "active_slashed",
     "exited_unslashed"}

\* the statuses the node selects for the query status=active
NodeActiveStatuses == {"active_ongoing", "active_exiting", "active_slashed"}

\* data of GET /eth/v1/beacon/states/head/validators?status=active
NodeActiveValidators(chain) == {v \in DOMAIN chain : chain[v] \in NodeActiveStatuses}

\* the returned map and the two gauges the call sets
get_active_index_to_pubkey(chain, pubkeys) ==
    [our_active_keys |-> ActiveIndexToPubkey(NodeActiveValidators(chain), pubkeys),
     total_active_validators_count |-> Cardinality(NodeActiveValidators(chain)),
     our_active_validators_count |->
        Cardinality(DOMAIN ActiveIndexToPubkey(NodeActiveValidators(chain), pubkeys))]

ValidatorsInit ==
    /\ fArg \in [chain : [Validators -> ValidatorStatuses], pubkeys : SUBSET Keys]
    /\ fRes = None
    /\ fPc = "in"
    /\ CodecOff /\ AggOff /\ HttpOff /\ AttOff /\ CacheOff
    /\ scheme = None /\ LoopOff

ValidatorsFetch ==
    /\ fPc = "in"
    /\ fRes' = get_active_index_to_pubkey(fArg.chain, fArg.pubkeys)
    /\ fPc' = "done"
    /\ UNCHANGED fArg
    /\ UNCHANGED <<scheme, codecVars, aggVars, httpVars, attVars, cacheVars,
                   loopVars>>

ValidatorsNext == ValidatorsFetch

SpecValidators == ValidatorsInit /\ [][ValidatorsNext]_vars

\* the validators of the chain that have one of the given statuses
WithStatus(statuses) == {v \in Validators : fArg.chain[v] \in statuses}

\* the call returned the watched validators that have one of the statuses,
\* the total gauge counts all validators with one of them, and the other
\* gauge is the size of the returned map
ReturnsWatchedOf(statuses) ==
    /\ DOMAIN fRes.our_active_keys =
          {v \in WithStatus(statuses) : PK(v) \in fArg.pubkeys}
    /\ \A v \in DOMAIN fRes.our_active_keys : fRes.our_active_keys[v] = PK(v)
    /\ fRes.total_active_validators_count = Cardinality(WithStatus(statuses))
    /\ fRes.our_active_validators_count = Cardinality(DOMAIN fRes.our_active_keys)
    /\ fRes.our_active_validators_count <= fRes.total_active_validators_count

\* C14 as stated: the active statuses are active_ongoing and active_exiting.
C14_ActiveOngoingOrExiting ==
    fPc = "done" => ReturnsWatchedOf({"active_ongoing", "active_exiting"})

\* C14 amended: the map holds index -> pubkey of the watched validators the
\* node returns for status=active (active_ongoing, active_exiting and
\* active_slashed); total_active_validators_count is the number of all those
\* validators, our_active_validators_count the size of the map, so that
\* our_active_validators_count <= total_active_validators_count.
C14_ActiveAsTheNodeSelects ==
    fPc = "done" =>
        ReturnsWatchedOf({"active_ongoing", "active_exiting", "active_slashed"})

C14_Witness ==
    /\ fPc = "done"
    /\ fArg.chain[1] = "active_slashed" /\ fArg.chain[2] = "pending_queued"
    /\ fArg.chain[3] = "active_ongoing"
    /\ fArg.pubkeys = {PK(1), PK(2)}
    /\ DOMAIN fRes.our_active_keys = {1}
    /\ fRes.total_active_validators_count = 2
    /\ fRes.our_active_validators_count = 1

(***************************************************************************)
(* The same call on blocks that also carry an attestation, for the slot    *)
(* before, of a committee the node does not list for that slot.            *)
(***************************************************************************)
\* a committee index past those of the slot
StrayCommittee(s) == Cardinality(DOMAIN ChainDuty(s))

StrayBlockOf(s, included) ==
    [BlockOf(s, included) EXCEPT
        !.attestations = @ \o <<Attestation(s - 1, StrayCommittee(s - 1), <<TRUE>>)>>]

AttStrayInit ==
    /\ \E s \in Slots, keys \in KeyFiles \ {{}} :
        dIn \in [block : {StrayBlockOf(s, included) : included \in SUBSET Validators},
                 slot : {s}, our_pubkeys : {keys},
                 active : AttActives(keys), cumulated : SUBSET Validators,
                 gauge : AttGauges]
    /\ dOut = None
    /\ dPc = "in"
    /\ FunOff /\ CacheOff
    /\ CodecOff /\ AggOff /\ HttpOff /\ scheme = None /\ LoopOff

SpecAttStray == AttStrayInit /\ [][AttNext]_vars

\* the validators whose bit is set in an attestation of the block for the
\* slot before and a committee of the duty map
AttOkOfDuty ==
    LET atts == dIn.block.attestations
        duty == ChainDuty(dIn.slot - 1)
    IN  {v \in Validators :
            \E k \in 1..Len(atts) :
                /\ atts[k].slot = dIn.slot - 1
                /\ atts[k].index \in DOMAIN duty
                /\ \E i \in 1..Len(atts[k].bits) :
                    atts[k].bits[i] /\ duty[atts[k].index][i] = v}

\* C16: an attestation for slot S-1 whose committee is not in the duty map of
\* S-1 is ignored: the step does not fail, and our_ok, our_ko and the gauge
\* are those of the attestations of the committees of the duty map.
C16_StrayCommitteeIgnored ==
    dPc = "done" =>
        /\ dOut.res.ran
        /\ ~dOut.res.raised
        /\ LET our_duty == AttDuty \cap DOMAIN dOut.res.active.val
               our_ok == AttOkOfDuty \cap our_duty
               our_ko == our_duty \ our_ok
           IN  /\ dOut.res.core.our_ok = our_ok
               /\ dOut.res.core.our_ko = our_ko
               /\ dOut.res.gauge =
                    IF our_duty /= {}
                    THEN [num |-> 100 * Cardinality(our_ko),
                          den |-> Cardinality(our_duty)]
                    ELSE dIn.gauge

(***************************************************************************)
(* Specification of aggregate_attestations on blocks that may hold an      *)
(* attestation whose aggregation_bits have no true bit, or attestations of  *)
(* one committee that decode to different lengths.                          *)
(***************************************************************************)
\* an attestation of committee 0 for the target slot whose bitfield is one
\* zero byte: no sentinel
MalformedAttestation ==
    [slot |-> AggTarget, index |-> 0, aggregation_bits |-> <<0, 0>>, bits |-> <<>>]

\* attestations of committee 0 for the target slot that are one bit short
ShortAttestations ==
    {Attestation(AggTarget, 0, b) : b \in [1..(AggSize(0) - 1) -> BOOLEAN]}

AggBadInit ==
    /\ aBlock \in {[attestations |-> as] :
                     as \in SeqsUpTo(AggAttestations \cup {MalformedAttestation}
                                        \cup ShortAttestations, MaxAtt)}
    /\ aOut = None
    /\ aPc = "in"
    /\ CodecOff /\ HttpOff /\ AttOff /\ FunOff /\ CacheOff /\ scheme = None /\ LoopOff

SpecAggBad == AggBadInit /\ [][AggNext]_vars

\* the attestations for the target slot and committee c that decode
AggDecodable(c) ==
    {k \in AggFor(c) : DecodeAggregationBits(aBlock.attestations[k].aggregation_bits).ok}

\* committee c has an attestation for the target slot, and all of them decode,
\* to one length
AggUnaffected(c) ==
    /\ AggFor(c) /= {}
    /\ AggDecodable(c) = AggFor(c)
    /\ \A k \in AggFor(c) : Len(aBlock.attestations[k].bits) = AggSize(c)

\* C18: aggregate_attestations returns a result whatever the block holds, and
\* every committee whose attestations for the target slot are all well formed
\* and of one length has its OR in the result: a malformed bitfield or a length
\* mismatch affects only the attestations concerned.
C18_BadAttestationSkipped ==
    aPc = "done" =>
        /\ aOut.ok
        /\ \A c \in {0, 1} : AggUnaffected(c) =>
            /\ c \in DOMAIN aOut.val
            /\ \A i \in 1..AggSize(c) :
                aOut.val[c][i] <=> \E k \in AggFor(c) : aBlock.attestations[k].bits[i]

(***************************************************************************)
(* Specification of the proposer duties cache over slot events with         *)
(* non-decreasing slots.  An event looks up the duties of the epoch of its  *)
(* slot (process_missed_blocks), and on a new epoch the duties of that      *)
(* epoch and of the next one (the announcement of the next proposals).      *)
(* The node answers a request with a body, which may differ from one        *)
(* request to the next, or with an error status that raise_for_status       *)
(* turns into an exception: it ends the run and is not memoized.            *)
(***************************************************************************)
CacheSlots ==
    {NB_SLOT_PER_EPOCH * e + d : e \in 0..MaxCacheEpoch, d \in {0, NB_SLOT_PER_EPOCH - 1}}

DutyBodies == {"duties_a", "duties_b"}

DutyAnswers == {[ok |-> TRUE, val |-> b] : b \in DutyBodies}
               \cup {[ok |-> FALSE, val |-> "HTTPError"]}

\* a method under lru_cache(maxsize) called with epoch on the state st of a
\* run, the node answering with answer if it is asked
LruCall(st, epoch, answer, maxsize) ==
    IF st.crashed THEN st
    ELSE IF CacheHit(st.cache, epoch)
    THEN [st EXCEPT !.cache = CacheTouch(st.cache, epoch),
                    !.got = Append(@, [epoch |-> epoch,
                                       data |-> CacheValue(st.cache, epoch)])]
    ELSE IF answer.ok
    THEN [st EXCEPT !.cache = CachePut(st.cache, epoch, answer.val, maxsize),
                    !.asked = Append(@, epoch),
                    !.body = Append(@, [epoch |-> epoch, data |-> answer.val]),
                    !.got = Append(@, [epoch |-> epoch, data |-> answer.val])]
    ELSE [st EXCEPT !.asked = Append(@, epoch), !.crashed = TRUE]

\* Beacon.get_proposer_duties(epoch)
CachedProposerDuties(st, epoch, answer) ==
    LruCall(st, epoch, answer, ProposerDutiesCacheSize)

\* the epochs an event looks up, in the order of the handler
EventLookups(s, is_new_epoch) ==
    <<EpochOf(s)>> \o (IF is_new_epoch THEN <<EpochOf(s), EpochOf(s) + 1>> ELSE <<>>)

RECURSIVE CacheRun(_, _, _)
CacheRun(st, epochs, answers) ==
    IF epochs = <<>> THEN st
    ELSE CacheRun(CachedProposerDuties(st, Head(epochs), Head(answers)),
                  Tail(epochs), Tail(answers))

CacheInit ==
    /\ qSlot = Nil(0)
    /\ qCache = <<>>
    /\ qAsked = <<>>
    /\ qBody = <<>>
    /\ qGot = <<>>
    /\ qPc = "run"
    /\ qMax = ProposerDutiesCacheSize
    /\ CodecOff /\ AggOff /\ HttpOff /\ AttOff /\ FunOff /\ scheme = None /\ LoopOff

CacheEvent ==
    /\ qPc = "run"
    /\ Len(qGot) < MaxLookups
    /\ \E s \in CacheSlots :
        /\ qSlot.none \/ qSlot.val <= s
        /\ \E answers \in [1..3 -> DutyAnswers] :
           \E st \in {CacheRun([cache |-> qCache, asked |-> qAsked, body |-> qBody,
                                got |-> qGot, crashed |-> FALSE],
                               EventLookups(s, qSlot.none
                                               \/ EpochOf(qSlot.val) /= EpochOf(s)),
                               answers)} :
                /\ qCache' = st.cache
                /\ qAsked' = st.asked
                /\ qBody' = st.body
                /\ qGot' = st.got
                /\ qPc' = IF st.crashed THEN "crashed" ELSE "run"
                /\ qSlot' = Some(s)
    /\ UNCHANGED qMax
    /\ UNCHANGED <<scheme, codecVars, aggVars, httpVars, attVars, funVars, loopVars>>

CacheNext == CacheEvent

SpecCache == CacheInit /\ [][CacheNext]_vars

\* the requests to the node for the duties of an epoch
AskedFor(e) == {k \in 1..Len(qAsked) : qAsked[k] = e}

\* C20: over slot events with non-decreasing slots the node is asked for the
\* proposer duties of an epoch at most once, and every lookup of an epoch
\* returns the body the node answered to that one request.
C20_TwoEntryCacheSuffices ==
    /\ \A e \in 0..(MaxCacheEpoch + 1) : Cardinality(AskedFor(e)) <= 1
    /\ \A k \in 1..Len(qGot) :
        \E j \in 1..Len(qBody) :
            /\ qBody[j].epoch = qGot[k].epoch
            /\ qBody[j].data = qGot[k].data

\* three epochs were looked up, the first was dropped from the cache, and a
\* lookup was answered from the cache
C20_Witness ==
    /\ qPc = "run"
    /\ Len(qAsked) >= 3
    /\ Len(qCache) = ProposerDutiesCacheSize
    /\ ~CacheHit(qCache, qAsked[1])
    /\ Len(qGot) > Len(qAsked)

(***************************************************************************)
(* Specification of a duty cache under calls in any order: the proposer     *)
(* duties cache (maxsize 2) or the committees cache (maxsize 1), called     *)
(* with any epoch at each step.                                             *)
(***************************************************************************)
LruInit ==
    /\ qSlot = Nil(0)
    /\ qCache = <<>>
    /\ qAsked = <<>>
    /\ qBody = <<>>
    /\ qGot = <<>>
    /\ qPc = "run"
    /\ qMax \in {ProposerDutiesCacheSize, CommitteesCacheSize}
    /\ CodecOff /\ AggOff /\ HttpOff /\ AttOff /\ FunOff /\ scheme = None /\ LoopOff

LruLookup ==
    /\ qPc = "run"
    /\ Len(qGot) < MaxLruCalls
    /\ \E e \in 0..MaxCacheEpoch : \E answer \in DutyAnswers :
        \E st \in {LruCall([cache |-> qCache, asked |-> qAsked, body |-> qBody,
                            got |-> qGot, crashed |-> FALSE], e, answer, qMax)} :
            /\ qCache' = st.cache
            /\ qAsked' = st.asked
            /\ qBody' = st.body
            /\ qGot' = st.got
            /\ qPc' = IF st.crashed THEN "crashed" ELSE "run"
    /\ UNCHANGED <<qSlot, qMax>>
    /\ UNCHANGED <<scheme, codecVars, aggVars, httpVars, attVars, funVars, loopVars>>

LruNext == LruLookup

SpecLru == LruInit /\ [][LruNext]_vars

CachedEpochs(cache) == {cache[k].epoch : k \in 1..Len(cache)}

\* a step that stores the duties of an epoch in a full cache
EvictionStep ==
    /\ Len(qCache) = qMax
    /\ Len(qBody') > Len(qBody)

\* the epochs a step drops from the cache
Evicted == CachedEpochs(qCache) \ CachedEpochs(qCache')

\* the position in the run of the last call with epoch e
LastCall(e) ==
    CHOOSE k \in 1..Len(qGot) :
        qGot[k].epoch = e /\ \A j \in 1..Len(qGot) : qGot[j].epoch = e => j <= k

\* C21 as stated: the entry dropped is the one of the smallest cached epoch.
C21_EvictsOldestEpoch ==
    [][ EvictionStep =>
          \E e \in CachedEpochs(qCache) :
              /\ Evicted = {e}
              /\ \A f \in CachedEpochs(qCache) : e <= f ]_vars

\* C21 amended: the entry dropped is the one of the cached epoch whose last
\* call is the earliest (least recently used); with one entry (committees)
\* that is also the smallest cached epoch.
C21_EvictsLeastRecentlyUsed ==
    [][ EvictionStep =>
          \E e \in CachedEpochs(qCache) :
              /\ Evicted = {e}
              /\ \A f \in CachedEpochs(qCache) \ {e} : LastCall(e) < LastCall(f)
              /\ qMax = CommitteesCacheSize =>
                    \A f \in CachedEpochs(qCache) : e <= f ]_vars

\* the proposer duties cache held two epochs, the smaller one was called
\* again, and the call of a third epoch dropped the larger one
C21_Witness ==
    /\ qPc = "run"
    /\ qMax = ProposerDutiesCacheSize
    /\ Len(qAsked) = 3
    /\ qAsked[1] < qAsked[2]
    /\ Len(qGot) = 4
    /\ qGot[3].epoch = qAsked[1]
    /\ CachedEpochs(qCache) = {qAsked[1], qAsked[3]}

====
